---- MODULE Spec2Model ----
(***************************************************************************)
(* nncase: the neutral evaluator registrations (neutral_ops.cpp), the      *)
(* reference Gather-ND kernel (gather_nd.cpp), the evaluator pass that     *)
(* dispatches a scheduled graph, node by node, to the registered closures, *)
(* and the tflite importer (tflite_importer.cpp) that builds the graph.    *)
(*                                                                         *)
(* Float values are fixed-point integers counted in steps of 1/Unit, so    *)
(* that x.5 is representable exactly.  size_t arithmetic is kept as the    *)
(* signed integer it is congruent to modulo 2^64: an int32 index -1 stored *)
(* in a size_t is 2^64-1, and (2^64-1)*s + t == t - s (mod 2^64).          *)
(***************************************************************************)
EXTENDS Integers, Sequences, FiniteSets, TLC

VARIABLES
    table,      \* registration table: opcode -> sequence of registered evaluators
    status,     \* "start" | "idle" | "fetch" | "eval" | "completed" | "aborted" | "crashed"
    nnodes,     \* number of nodes of the schedule order of the running pass
    pos,        \* position in the schedule order (1-based)
    node,       \* the node at pos, as handed over by the scheduler
    mem,        \* memory binding of the node's connectors: connector -> buffer
    evaluated,  \* positions whose evaluator has been invoked, in order
    written,    \* positions whose output buffer has been written
    resolved,   \* connectors of the node at pos resolved through memory_at
    kres,       \* what the last invoked kernel returned: "none" | "ok" | "err"
    oob,        \* the last kernel read outside the extent of its input buffer
    kcount,     \* number of elements the last kernel was invoked over
    istate,     \* importer: "none" | "new" | "constructed" | "rejected" | "imported" | "failed" | "crashed"
    model,      \* importer: the model buffer handed to the constructor
    options,    \* importer: import_options.output_arrays
    graph_,     \* importer: the nodes emplaced in the graph, in order
    links,      \* importer: input connector -> the output connector it is connected to
    error,      \* importer: the message of the exception thrown (<<>>: none)
    ctor        \* importer: what the constructor did with the buffer, in order

\* the variables of the evaluator and those of the importer
evars == <<table, status, nnodes, pos, node, mem, evaluated, written, resolved, kres, oob, kcount>>
ivars == <<istate, model, options, graph_, links, error, ctor>>

vars == <<evars, ivars>>

----------------------------------------------------------------------------
(* Bounds *)

\* longest schedule order
MaxNodes == 3
\* fixed-point steps in one half: Unit = 2 * Half steps make 1.0
Half == 2
\* largest index value stored in a gather_nd indices tensor (smallest is -1)
MaxIdx == 2
\* number of tensors of the subgraph of an imported model
MaxTensors == 3

Unit == 2 * Half
\* the float values of the model: -2.5 .. 2.5 in steps of 1/Unit
FxVals == (0 - 5 * Half) .. (5 * Half)

----------------------------------------------------------------------------
(* Shapes, strides, offsets *)

RECURSIVE compute_size(_)
compute_size(shape) ==
    IF shape = <<>> THEN 1 ELSE Head(shape) * compute_size(Tail(shape))

\* row-major strides of a shape
get_default_strides(shape) ==
    [d \in 1..Len(shape) |-> compute_size(SubSeq(shape, d + 1, Len(shape)))]

RECURSIVE offset(_, _)
offset(strides, index) ==
    IF index = <<>> THEN 0
    ELSE Head(index) * Head(strides) + offset(Tail(strides), Tail(index))

\* all multi-indices of a shape, in the row-major order apply() visits them
RECURSIVE Indices(_)
Indices(shape) ==
    IF shape = <<>> THEN << <<>> >>
    ELSE LET rest == Indices(Tail(shape))
             RECURSIVE row(_)
             row(i) == IF i = Head(shape) THEN <<>>
                       ELSE [k \in 1..Len(rest) |-> <<i>> \o rest[k]] \o row(i + 1)
         IN row(0)

\* number of elements a view (shape, strides) spans in its buffer
RECURSIVE Extent(_, _)
Extent(shape, strides) ==
    IF shape = <<>> THEN 1
    ELSE (Head(shape) - 1) * Head(strides) + Extent(Tail(shape), Tail(strides))

Range(s) == {s[i] : i \in 1..Len(s)}

Last(s) == s[Len(s)]

----------------------------------------------------------------------------
(* Registration table *)

NopKinds == {"op_input_node", "op_output_node", "op_ignore_node", "op_constant"}

\* the calls of register_neutral_evaluators, in source order
RegistrationsDup ==
    << <<"op_input_node", "nop_evaluator">>, <<"op_output_node", "nop_evaluator">>,
       <<"op_ignore_node", "nop_evaluator">>, <<"op_constant", "nop_evaluator">>,
       <<"op_batch_to_space", "batch_to_space">>, <<"op_binary", "binary">>,
       <<"op_concat", "concat">>, <<"op_conv2d", "conv2d">>,
       <<"op_conv2d_transpose", "conv2d_transpose">>, <<"op_dequantize", "dequantize">>,
       <<"op_fused_unary", "fused_unary">>, <<"op_matmul", "matmul">>,
       <<"op_pad", "pad">>, <<"op_quantize", "quantize">>, <<"op_reduce", "reduce">>,
       <<"op_reduce_window2d", "reduce_window2d">>, <<"op_bitcast", "bitcast">>,
       <<"op_resize_image", "resize_image">>, <<"op_slice", "slice">>,
       <<"op_transpose", "transpose">>, <<"op_unary", "unary">>,
       <<"op_table_lookup1d", "table_lookup1d">>, <<"op_clamp", "clamp">>,
       <<"op_convert", "convert">>, <<"op_gather", "gather">>,
       <<"op_gather", "gather_nd">> >>

Registrations ==
    << <<"op_input_node", "nop_evaluator">>, <<"op_output_node", "nop_evaluator">>,
       <<"op_ignore_node", "nop_evaluator">>, <<"op_constant", "nop_evaluator">>,
       <<"op_batch_to_space", "batch_to_space">>, <<"op_binary", "binary">>,
       <<"op_concat", "concat">>, <<"op_conv2d", "conv2d">>,
       <<"op_conv2d_transpose", "conv2d_transpose">>, <<"op_dequantize", "dequantize">>,
       <<"op_fused_unary", "fused_unary">>, <<"op_matmul", "matmul">>,
       <<"op_pad", "pad">>, <<"op_quantize", "quantize">>, <<"op_reduce", "reduce">>,
       <<"op_reduce_window2d", "reduce_window2d">>, <<"op_bitcast", "bitcast">>,
       <<"op_resize_image", "resize_image">>, <<"op_slice", "slice">>,
       <<"op_transpose", "transpose">>, <<"op_unary", "unary">>,
       <<"op_table_lookup1d", "table_lookup1d">>, <<"op_clamp", "clamp">>,
       <<"op_convert", "convert">>, <<"op_gather", "gather">>,
       <<"op_gather_nd", "gather_nd">> >>

\* an opcode of the IR that the neutral target registers no evaluator for
UnregisteredKinds == {"op_uninitialized"}

\* kernels of the library that return result<void>, unwrapped by unwrap_or_throw
ResultKinds ==
    {"op_batch_to_space", "op_binary", "op_concat", "op_conv2d", "op_fused_unary",
     "op_pad", "op_reduce", "op_reduce_window2d", "op_resize_image", "op_slice",
     "op_transpose", "op_convert", "op_gather", "op_gather_nd"}

\* kernels that return void
VoidKinds ==
    {"op_conv2d_transpose", "op_dequantize", "op_matmul", "op_quantize", "op_bitcast",
     "op_unary", "op_table_lookup1d", "op_clamp"}

OpKinds == NopKinds \cup ResultKinds \cup VoidKinds \cup UnregisteredKinds

register_evaluator(t, opcode, evaluator) ==
    [t EXCEPT ![opcode] = Append(@, evaluator)]

RECURSIVE RegisterAll(_, _)
RegisterAll(t, regs) ==
    IF regs = <<>> THEN t
    ELSE RegisterAll(register_evaluator(t, Head(regs)[1], Head(regs)[2]), Tail(regs))

\* the evaluator the pass dispatches an opcode to ("" when there is none)
Handler(kind) == IF table[kind] = <<>> THEN "" ELSE table[kind][1]

----------------------------------------------------------------------------
(* Nodes and their memory binding *)

\* the connectors of a node, in the order its evaluator resolves them
Conns(kind) ==
    CASE kind \in {"op_input_node", "op_constant"} -> <<"output">>
      [] kind \in {"op_output_node", "op_ignore_node"} -> <<"input">>
      [] kind \in {"op_binary"} -> <<"input_a", "input_b", "output">>
      [] kind \in {"op_concat"} -> <<"input_0", "input_1", "output">>
      [] kind \in {"op_conv2d", "op_conv2d_transpose"} -> <<"input", "weights", "bias", "output">>
      [] kind \in {"op_dequantize"} -> <<"output", "input">>
      [] kind \in {"op_matmul"} -> <<"input_a", "input_b", "bias", "output">>
      [] kind \in {"op_table_lookup1d"} -> <<"input", "table", "output">>
      [] kind \in {"op_clamp"} -> <<"input", "input_low", "input_high", "output">>
      [] kind \in {"op_gather", "op_gather_nd"} -> <<"input", "output", "indices">>
      [] kind \in {"op_uninitialized"} -> <<>>
      [] OTHER -> <<"input", "output">>

\* index of the first connector of conns that has no binding (0: all are bound)
RECURSIVE FirstUnbound(_, _)
FirstUnbound(conns, unbound) ==
    IF conns = <<>> THEN 0
    ELSE IF Head(conns) \in unbound THEN 1
    ELSE LET r == FirstUnbound(Tail(conns), unbound) IN IF r = 0 THEN 0 ELSE r + 1

BaseNode(kind) ==
    [kind |-> kind, unbound |-> {}, kfail |-> FALSE, itype |-> "dt_float32", op |-> "",
     ishape |-> <<1>>, istr |-> <<1>>, oshape |-> <<1>>, ostr |-> <<1>>,
     xshape |-> <<>>, xstr |-> <<>>, bd |-> 0, zp |-> 0, scale |-> 1]

BaseMem(kind) == [c \in Range(Conns(kind)) |-> <<1>>]

\* the same node with the connectors of u left without a binding
WithUnbound(x, u) ==
    [node |-> [x.node EXCEPT !.unbound = u],
     mem |-> [c \in (DOMAIN x.mem) \ u |-> x.mem[c]]]

UnboundChoices(kind) == {{}} \cup {{c} : c \in Range(Conns(kind))}

\* the evaluators that open with assert(rnode.input().type() == dt_float32)
Float32Asserted ==
    {"op_binary", "op_conv2d", "op_conv2d_transpose", "op_matmul", "op_reduce",
     "op_reduce_window2d", "op_unary", "op_clamp"}

\* the type the evaluator's opening assert compares the input type with
\* ("" when the evaluator has no such assert)
AssertedType(kind) ==
    CASE kind \in Float32Asserted -> "dt_float32"
      [] kind = "op_table_lookup1d" -> "dt_uint8"
      [] OTHER -> ""

\* the element types the evaluator reads its input buffer as (as_span<T>, or the
\* cases of the dequantize switch); the other evaluators pass the type on
KernelTypes(kind) ==
    CASE kind \in Float32Asserted \cup {"op_quantize", "op_fused_unary"} -> {"dt_float32"}
      [] kind = "op_table_lookup1d" -> {"dt_uint8"}
      [] kind = "op_dequantize" -> {"dt_uint8", "dt_int8", "dt_int32"}
      [] OTHER -> {}

TypedKinds == {k \in ResultKinds \cup VoidKinds : KernelTypes(k) # {}}

\* the condition of the opening assert is false
AssertFails(n) == AssertedType(n.kind) # "" /\ n.itype # AssertedType(n.kind)

----------------------------------------------------------------------------
(* Element-wise functions of the evaluators *)

FloorFx(a) == (a \div Unit) * Unit
CeilFx(a) == 0 - FloorFx(0 - a)
AbsFx(a) == IF a < 0 THEN 0 - a ELSE a

\* static_cast<int> of an integer-valued float: truncation toward zero
StaticCastInt(f) == IF f >= 0 THEN f \div Unit ELSE 0 - ((0 - f) \div Unit)

\* the C++ remainder: the sign of the result is the sign of the dividend
CRem(a, b) == IF a >= 0 THEN a % b ELSE 0 - ((0 - a) % b)

\* round(a) of <cmath>: halves away from zero (the disabled branch of unary_round)
unary_round_away(a) ==
    IF a >= 0 THEN FloorFx(a + Half) ELSE 0 - FloorFx((0 - a) + Half)

unary_round(a) ==
    LET floor_val == FloorFx(a)
        diff == a - floor_val
    IN IF (diff < Half) \/ ((diff = Half) /\ (CRem(StaticCastInt(floor_val), 2) = 0))
       THEN floor_val
       ELSE floor_val + Unit

\* the unary functions of the switch that fixed-point values can express
UnaryOps == {"unary_abs", "unary_ceil", "unary_floor", "unary_neg", "unary_round"}

UnaryFn(op, a) ==
    CASE op = "unary_abs" -> AbsFx(a)
      [] op = "unary_ceil" -> CeilFx(a)
      [] op = "unary_floor" -> FloorFx(a)
      [] op = "unary_neg" -> 0 - a
      [] op = "unary_round" -> unary_round(a)

\* neutral::unary(input, output, count, op): a loop over the first count elements
neutral_unary(input, output, count, op) ==
    [i \in 1..Len(output) |-> IF i <= count THEN UnaryFn(op, input[i]) ELSE output[i]]

std_clamp(v, lo, hi) == IF v < lo THEN lo ELSE IF hi < v THEN hi ELSE v

\* the loop of the clamp evaluator
clamp_loop(input, output, low, high) ==
    [i \in 1..Len(output) |->
        IF i <= Len(input) THEN std_clamp(input[i], low, high) ELSE output[i]]

----------------------------------------------------------------------------
(* Dequantize *)

DequantizeTypes == {"dt_uint8", "dt_int8", "dt_int32"}
OtherIntTypes == {"dt_int16", "dt_uint16", "dt_uint32"}

get_bytes(type) ==
    CASE type \in {"dt_uint8", "dt_int8"} -> 1
      [] type \in {"dt_int16", "dt_uint16"} -> 2
      [] OTHER -> 4

SignedByte(b) == IF b >= 128 THEN b - 256 ELSE b

\* element i (from 0) of a byte buffer read as to_cpp_type_t<type>, little endian
ReadElem(type, bytes, i) ==
    CASE type = "dt_uint8" -> bytes[i + 1]
      [] type = "dt_int8" -> SignedByte(bytes[i + 1])
      [] type = "dt_int32" ->
            bytes[4 * i + 1] + 256 * bytes[4 * i + 2] + 65536 * bytes[4 * i + 3]
                + 16777216 * SignedByte(bytes[4 * i + 4])

\* every element read as one unsigned byte, whatever the type
as_span_uint8(type, bytes) == bytes

as_span(type, bytes) ==
    [i \in 1..(Len(bytes) \div get_bytes(type)) |-> ReadElem(type, bytes, i - 1)]

\* neutral::dequantize: real = (quantized - zero_point) * scale
neutral_dequantize(input, output, count, zp, scale) ==
    [i \in 1..Len(output) |-> IF i <= count THEN (input[i] - zp) * scale ELSE output[i]]

----------------------------------------------------------------------------
(* Gather-ND kernel *)

\* the lambda without its last loop: the trailing components stay 0
gather_in_index_notrail(out_index, in_rank, indices, indices_shape, batch_dims) ==
    LET last_indices_index == Len(indices_shape) - 1
        count == indices_shape[last_indices_index + 1]
        indices_index == [d \in 1..Len(indices_shape) |->
                            IF d - 1 < last_indices_index THEN out_index[d] ELSE 0]
        indices_begin == offset(get_default_strides(indices_shape), indices_index)
    IN [d \in 1..in_rank |->
          IF d - 1 < batch_dims THEN out_index[d]
          ELSE IF d - 1 < batch_dims + count
               THEN indices[indices_begin + (d - 1 - batch_dims) + 1]
          ELSE 0]

\* in_index as the lambda of gather_nd_impl builds it for one out_index
gather_in_index(out_index, in_rank, indices, indices_shape, batch_dims) ==
    LET last_indices_index == Len(indices_shape) - 1
        count == indices_shape[last_indices_index + 1]
        \* o_index after the first two loops
        o2 == IF batch_dims > last_indices_index THEN batch_dims ELSE last_indices_index
        indices_index == [d \in 1..Len(indices_shape) |->
                            IF d - 1 < o2 THEN out_index[d] ELSE 0]
        indices_begin == offset(get_default_strides(indices_shape), indices_index)
    IN [d \in 1..in_rank |->
          IF d - 1 < batch_dims THEN out_index[d]
          ELSE IF d - 1 < batch_dims + count
               THEN indices[indices_begin + (d - 1 - batch_dims) + 1]
          ELSE LET o == o2 + (d - 1 - batch_dims - count)
               IN IF o < Len(out_index) THEN out_index[o + 1] ELSE 0]

\* The lambda statement by statement.  Its state: the counters i_index and o_index,
\* the vectors in_index and indices_index (zero-initialised by their constructors),
\* the components assigned so far, and the accesses that fell outside a vector.
LambdaStart(in_rank, indices_rank) ==
    [i_index |-> 0, o_index |-> 0,
     in_index |-> [d \in 1..in_rank |-> 0],
     indices_index |-> [d \in 1..indices_rank |-> 0],
     asg_in |-> {}, asg_idx |-> {}, bad |-> {}]

\* the read out_index[o]
ReadOut(st, out_index, o) ==
    IF o < Len(out_index) THEN st ELSE [st EXCEPT !.bad = @ \cup {<<"out_index", o>>}]

OutAt(out_index, o) == IF o < Len(out_index) THEN out_index[o + 1] ELSE 0

\* the assignment in_index[p] = v
SetIn(st, p, v) ==
    IF p < Len(st.in_index)
    THEN [st EXCEPT !.in_index[p + 1] = v, !.asg_in = @ \cup {p}]
    ELSE [st EXCEPT !.bad = @ \cup {<<"in_index", p>>}]

\* the assignment indices_index[p] = v
SetIdx(st, p, v) ==
    IF p < Len(st.indices_index)
    THEN [st EXCEPT !.indices_index[p + 1] = v, !.asg_idx = @ \cup {p}]
    ELSE [st EXCEPT !.bad = @ \cup {<<"indices_index", p>>}]

\* for (; i_index < batch_dims; i_index++, o_index++)
RECURSIVE lambda_loop1(_, _, _)
lambda_loop1(st, out_index, batch_dims) ==
    IF st.i_index < batch_dims
    THEN LET v == OutAt(out_index, st.o_index)
             s1 == SetIdx(ReadOut(st, out_index, st.o_index), st.i_index, v)
             s2 == SetIn(ReadOut(s1, out_index, st.o_index), st.i_index, v)
         IN lambda_loop1([s2 EXCEPT !.i_index = @ + 1, !.o_index = @ + 1],
                         out_index, batch_dims)
    ELSE st

\* the second loop running up to and including last_indices_index
RECURSIVE lambda_loop2_inclusive(_, _, _)
lambda_loop2_inclusive(st, out_index, last_indices_index) ==
    IF st.o_index <= last_indices_index
    THEN LET s1 == SetIdx(ReadOut(st, out_index, st.o_index), st.o_index,
                          OutAt(out_index, st.o_index))
         IN lambda_loop2_inclusive([s1 EXCEPT !.o_index = @ + 1], out_index,
                                   last_indices_index)
    ELSE st

\* for (; o_index < last_indices_index; ++o_index)
RECURSIVE lambda_loop2(_, _, _)
lambda_loop2(st, out_index, last_indices_index) ==
    IF st.o_index < last_indices_index
    THEN LET s1 == SetIdx(ReadOut(st, out_index, st.o_index), st.o_index,
                          OutAt(out_index, st.o_index))
         IN lambda_loop2([s1 EXCEPT !.o_index = @ + 1], out_index, last_indices_index)
    ELSE st

\* for (size_t i = 0; i < indices_shape[last_indices_index]; ++i_index, ++i)
RECURSIVE lambda_loop3(_, _, _, _, _)
lambda_loop3(st, indices, indices_begin, count, i) ==
    IF i < count
    THEN lambda_loop3([SetIn(st, st.i_index, indices[indices_begin + i + 1])
                          EXCEPT !.i_index = @ + 1],
                      indices, indices_begin, count, i + 1)
    ELSE st

\* for (; o_index < out_index.size() && i_index < in_index.size(); ++o_index, ++i_index)
RECURSIVE lambda_loop4(_, _)
lambda_loop4(st, out_index) ==
    IF st.o_index < Len(out_index) /\ st.i_index < Len(st.in_index)
    THEN LET s1 == SetIn(ReadOut(st, out_index, st.o_index), st.i_index,
                         OutAt(out_index, st.o_index))
         IN lambda_loop4([s1 EXCEPT !.i_index = @ + 1, !.o_index = @ + 1], out_index)
    ELSE st

\* the lambda of gather_nd_impl up to the copy of the element, for one out_index
gather_lambda(out_index, in_rank, indices, indices_shape, batch_dims) ==
    LET last_indices_index == Len(indices_shape) - 1
        s1 == lambda_loop1(LambdaStart(in_rank, Len(indices_shape)), out_index, batch_dims)
        s2 == lambda_loop2(s1, out_index, last_indices_index)
        indices_begin == offset(get_default_strides(indices_shape), s2.indices_index)
        s3 == lambda_loop3(s2, indices, indices_begin,
                           indices_shape[last_indices_index + 1], 0)
    IN lambda_loop4(s3, out_index)

\* whether input[off] lies in the input buffer
InExtent(off, input) == off >= 0 /\ off < Len(input)

\* the output positions whose read of input falls outside the input buffer
GatherOobReads(n, m) ==
    {k \in 1..Len(Indices(n.oshape)) :
        ~InExtent(offset(n.istr, gather_in_index(Indices(n.oshape)[k], Len(n.ishape),
                             m["indices"], n.xshape, n.bd)), m["input"])}

\* gather_nd_impl: apply() over out_shape; garbage[k] is what an out-of-extent
\* read at the k-th output position delivers
gather_nd_impl(n, m, garbage) ==
    LET idxs == Indices(n.oshape)
        RECURSIVE run(_, _)
        run(k, output) ==
            IF k > Len(idxs) THEN output
            ELSE LET in_index == gather_in_index(idxs[k], Len(n.ishape), m["indices"],
                                                 n.xshape, n.bd)
                     off == offset(n.istr, in_index)
                     v == IF InExtent(off, m["input"]) THEN m["input"][off + 1]
                          ELSE garbage[k]
                 IN run(k + 1, [output EXCEPT ![offset(n.ostr, idxs[k]) + 1] = v])
    IN run(1, m["output"])

----------------------------------------------------------------------------
(* The nodes and bindings the scheduler hands to a pass *)

Iota(n) == [i \in 1..n |-> i]
Zeros(n) == [i \in 1..n |-> 0]

\* one well-formed node of every kind, with one-element buffers
CanonInput(k) ==
    CASE k = "op_unary" ->
            [node |-> [BaseNode(k) EXCEPT !.op = "unary_neg"], mem |-> BaseMem(k)]
      [] k = "op_dequantize" ->
            [node |-> [BaseNode(k) EXCEPT !.itype = "dt_uint8"], mem |-> BaseMem(k)]
      [] k = "op_table_lookup1d" ->
            [node |-> [BaseNode(k) EXCEPT !.itype = "dt_uint8"], mem |-> BaseMem(k)]
      [] k = "op_gather_nd" ->
            [node |-> [BaseNode(k) EXCEPT !.ishape = <<2>>, !.xshape = <<1, 1>>,
                                          !.xstr = <<1, 1>>],
             mem |-> [input |-> <<1, 2>>, indices |-> <<1>>, output |-> <<0>>]]
      [] OTHER -> [node |-> BaseNode(k), mem |-> BaseMem(k)]

\* whether the library kernel of the node reports failure is decided by the
\* node's attributes and data, which the scheduler hands over with the node
KernelOutcomes(k) == IF k \in ResultKinds \ {"op_gather_nd"} THEN BOOLEAN ELSE {FALSE}

SimpleInputs ==
    UNION {UNION {{WithUnbound([CanonInput(k) EXCEPT !.node.kfail = f], u) :
                      u \in UnboundChoices(k)} : f \in KernelOutcomes(k)} : k \in OpKinds}

\* strided views of a 2x2 tensor: row-major, transposed, rows of a wider buffer
Views22 == {<<2, 1>>, <<1, 2>>, <<3, 1>>}

StridedPairs ==
    {p \in Views22 \X Views22 : Extent(<<2, 2>>, p[1]) = Extent(<<2, 2>>, p[2])}

UnaryNode(op, shape, si, so) ==
    [BaseNode("op_unary") EXCEPT !.op = op, !.ishape = shape, !.istr = si,
                                 !.oshape = shape, !.ostr = so]

UnaryInputs ==
    {[node |-> UnaryNode(op, <<1>>, <<1>>, <<1>>),
      mem |-> [input |-> <<v>>, output |-> <<0>>]] :
        op \in UnaryOps \cup {"unary_other"}, v \in FxVals}
    \cup
    {[node |-> UnaryNode("unary_neg", <<2, 2>>, p[1], p[2]),
      mem |-> [input |-> Iota(Extent(<<2, 2>>, p[1])),
               output |-> Zeros(Extent(<<2, 2>>, p[2]))]] : p \in StridedPairs}

ClampBounds == {b \in {0 - Unit, 0, Unit} \X {0 - Unit, 0, Unit} : b[1] <= b[2]}

ClampNode(shape, si, so) ==
    [BaseNode("op_clamp") EXCEPT !.ishape = shape, !.istr = si, !.oshape = shape, !.ostr = so]

ClampInputs ==
    {[node |-> ClampNode(<<1>>, <<1>>, <<1>>),
      mem |-> [input |-> <<v>>, output |-> <<0>>,
               input_low |-> IF more THEN <<b[1], b[2]>> ELSE <<b[1]>>,
               input_high |-> IF more THEN <<b[2], b[1]>> ELSE <<b[2]>>]] :
        v \in FxVals, b \in ClampBounds, more \in BOOLEAN}
    \cup
    {[node |-> ClampNode(<<2, 2>>, p[1], p[2]),
      mem |-> [input |-> Iota(Extent(<<2, 2>>, p[1])),
               output |-> Zeros(Extent(<<2, 2>>, p[2])),
               input_low |-> <<2>>, input_high |-> <<3>>]] : p \in StridedPairs}

ByteVals == {0, 1, 127, 128, 255}
WordBytes == {0, 1, 255}
QuantParams == {0, 1} \X {1, Half}

DequantizeNode(type, shape, si, so, qp) ==
    [BaseNode("op_dequantize") EXCEPT !.itype = type, !.ishape = shape, !.istr = si,
                                      !.oshape = shape, !.ostr = so,
                                      !.zp = qp[1], !.scale = qp[2]]

DequantizeInputs ==
    {[node |-> DequantizeNode(t, <<1>>, <<1>>, <<1>>, qp),
      mem |-> [input |-> <<b>>, output |-> <<0>>]] :
        t \in {"dt_uint8", "dt_int8"}, b \in ByteVals, qp \in QuantParams}
    \cup
    {[node |-> DequantizeNode("dt_int32", <<1>>, <<1>>, <<1>>, qp),
      mem |-> [input |-> w, output |-> <<0>>]] :
        w \in [1..4 -> WordBytes], qp \in QuantParams}
    \cup
    {[node |-> DequantizeNode(t, <<1>>, <<1>>, <<1>>, <<0, 1>>),
      mem |-> [input |-> Zeros(get_bytes(t)), output |-> <<0>>]] :
        t \in OtherIntTypes \cup {"dt_float32"}}
    \cup
    {[node |-> DequantizeNode("dt_uint8", <<2>>, <<si>>, <<so>>, <<0, 1>>),
      mem |-> [input |-> Iota(Extent(<<2>>, <<si>>)),
               output |-> Zeros(Extent(<<2>>, <<so>>))]] : si \in {1, 2}, so \in {1, 2}}

\* the output shape the gather_nd node declares
GatherOutShape(ishape, xshape, bd) ==
    SubSeq(xshape, 1, Len(xshape) - 1)
        \o SubSeq(ishape, bd + xshape[Len(xshape)] + 1, Len(ishape))

GatherNdNode(ishape, istr, xshape, xstr, bd) ==
    [BaseNode("op_gather_nd") EXCEPT !.ishape = ishape, !.istr = istr,
        !.xshape = xshape, !.xstr = xstr, !.bd = bd,
        !.oshape = GatherOutShape(ishape, xshape, bd),
        !.ostr = get_default_strides(GatherOutShape(ishape, xshape, bd))]

\* <<in_shape, indices_shape, batch_dims>>
GatherShapes ==
    {<< <<2, 2>>, <<2, 1>>, 0 >>, << <<2, 2>>, <<1, 2>>, 0 >>,
     << <<2, 2>>, <<2, 1>>, 1 >>, << <<2>>, <<2, 1>>, 0 >>, << <<2>>, <<1>>, 0 >>}

InStrides(ishape) ==
    {get_default_strides(ishape)} \cup (IF Len(ishape) = 2 THEN {<<3, 1>>} ELSE {<<2>>})

IndicesStrides(xshape) ==
    {get_default_strides(xshape)} \cup (IF xshape = <<2, 1>> THEN {<<2, 1>>} ELSE {})

IdxVals == (0 - 1) .. MaxIdx

GatherNdInputs ==
    UNION {UNION {UNION {
        {[node |-> GatherNdNode(g[1], si, g[2], sx, g[3]),
          mem |-> [input |-> Iota(Extent(g[1], si)),
                   indices |-> x,
                   output |-> Zeros(compute_size(GatherOutShape(g[1], g[2], g[3])))]] :
            x \in [1..Extent(g[2], sx) -> IdxVals]} :
        sx \in IndicesStrides(g[2])} : si \in InStrides(g[1])} : g \in GatherShapes}

DataTypes == {"dt_float32", "dt_uint8", "dt_int8", "dt_int32"}

\* nodes whose declared input type is not one their evaluator reads the buffer as
\* (those of dequantize are in DequantizeInputs)
MistypedInputs ==
    UNION {UNION {{[CanonInput(k) EXCEPT !.node.itype = t, !.node.kfail = f] :
                      t \in DataTypes \ KernelTypes(k)} : f \in KernelOutcomes(k)} :
              k \in TypedKinds \ {"op_dequantize"}}

\* a pass over a single node explores the data of the node; longer orders
\* explore the positions of well-formed, failing and malformed nodes
NodeInputs(n) ==
    IF n = 1
    THEN SimpleInputs \cup UnaryInputs \cup ClampInputs \cup DequantizeInputs
            \cup GatherNdInputs \cup MistypedInputs
    ELSE SimpleInputs

----------------------------------------------------------------------------
(* The pass *)

NoNode == BaseNode("")

\* no importer is at work during an evaluator pass
NoImport ==
    /\ istate = "none"
    /\ model = <<>>
    /\ options = <<>>
    /\ graph_ = <<>>
    /\ links = <<>>
    /\ error = <<>>
    /\ ctor = <<>>

\* the evaluator before its registration table is filled
EvalInit ==
    /\ table = [k \in OpKinds |-> <<>>]
    /\ status = "start"
    /\ nnodes = 0
    /\ pos = 0
    /\ node = NoNode
    /\ mem = <<>>
    /\ evaluated = <<>>
    /\ written = {}
    /\ resolved = {}
    /\ kres = "none"
    /\ oob = FALSE
    /\ kcount = 0

Init == EvalInit /\ NoImport

register_neutral_evaluators ==
    /\ status = "start"
    /\ table' = RegisterAll(table, Registrations)
    /\ status' = "idle"
    /\ UNCHANGED <<nnodes, pos, node, mem, evaluated, written, resolved, kres, oob, kcount, ivars>>

\* the evaluator is handed a schedule order of n nodes
StartPass ==
    /\ status = "idle"
    /\ \E n \in 1..MaxNodes : nnodes' = n
    /\ status' = "fetch"
    /\ UNCHANGED <<table, pos, node, mem, evaluated, written, resolved, kres, oob, kcount, ivars>>

\* the pass moves to the next node of the order
Fetch ==
    /\ status = "fetch"
    /\ pos < nnodes
    /\ \E x \in NodeInputs(nnodes) : node' = x.node /\ mem' = x.mem
    /\ pos' = pos + 1
    /\ status' = "eval"
    /\ resolved' = {}
    /\ kres' = "none"
    /\ oob' = FALSE
    /\ kcount' = 0
    /\ UNCHANGED <<table, nnodes, evaluated, written, ivars>>

\* every node of the order has been evaluated
Finish ==
    /\ status = "fetch"
    /\ pos = nnodes
    /\ status' = "completed"
    /\ UNCHANGED <<table, nnodes, pos, node, mem, evaluated, written, resolved, kres, oob, kcount, ivars>>

\* no evaluator is registered for the node's opcode: the pass throws
NoEvaluator ==
    /\ status = "eval"
    /\ Handler(node.kind) = ""
    /\ status' = "aborted"
    /\ UNCHANGED <<table, nnodes, pos, node, mem, evaluated, written, resolved, kres, oob, kcount, ivars>>

\* an evaluator returns or throws: st is the status of the pass after it, rs the
\* connectors it resolved, m the memory it leaves, wr whether it wrote its output
Leave(st, rs, m, wr, kr, ob, kc) ==
    /\ status' = st
    /\ resolved' = resolved \cup rs
    /\ mem' = m
    /\ written' = IF wr THEN written \cup {pos} ELSE written
    /\ kres' = kr
    /\ oob' = ob
    /\ kcount' = kc
    /\ evaluated' = Append(evaluated, pos)
    /\ UNCHANGED <<table, nnodes, pos, node, ivars>>

\* memory_at of a connector without a binding throws; the connectors before it
\* in the evaluator's order have been resolved
ThrowUnbound(conns) ==
    Leave("aborted", Range(SubSeq(conns, 1, FirstUnbound(conns, node.unbound) - 1)),
          mem, FALSE, "none", FALSE, 0)

AllBound(conns) == FirstUnbound(conns, node.unbound) = 0

\* result<void>::unwrap_or_throw: the status of the pass after the kernel returned r
unwrap_or_throw(r) == IF r = "err" THEN "aborted" ELSE "fetch"

\* a kernel of the library writes its output view; the values are not tracked
KernelWrite(m) == [m EXCEPT !["output"] = Zeros(Len(m["output"]))]

Dispatched(k, h) == status = "eval" /\ node.kind = k /\ Handler(k) = h

\* the opening assert of an evaluator fails and the build has assertions enabled:
\* the process aborts before any connector is resolved
AssertAborts ==
    /\ AssertFails(node)
    /\ Leave("aborted", {}, mem, FALSE, "none", FALSE, 0)

nop_evaluator_writes ==
    /\ status = "eval"
    /\ Handler(node.kind) = "nop_evaluator"
    /\ LET c == Conns(node.kind)[1]
       IN IF c \in node.unbound THEN ThrowUnbound(<<c>>)
          ELSE Leave("fetch", {c}, [mem EXCEPT ![c] = Zeros(Len(mem[c]))], TRUE,
                     "none", FALSE, 0)

nop_evaluator ==
    /\ status = "eval"
    /\ Handler(node.kind) = "nop_evaluator"
    /\ Leave("fetch", {}, mem, FALSE, "none", FALSE, 0)

\* the same evaluator without .unwrap_or_throw(): the kernel's result is dropped
ResultEvaluator_no_unwrap(k, h) ==
    /\ Dispatched(k, h)
    /\ \/ AssertAborts
       \/ IF ~AllBound(Conns(k)) THEN ThrowUnbound(Conns(k))
          ELSE IF node.kfail
          THEN \E wrote \in BOOLEAN :
                   Leave("fetch", Range(Conns(k)),
                         IF wrote THEN KernelWrite(mem) ELSE mem, wrote, "err", FALSE, 0)
          ELSE Leave("fetch", Range(Conns(k)), KernelWrite(mem), TRUE, "ok", FALSE, 0)

\* an evaluator that resolves its connectors and unwraps a library kernel's result;
\* a failing assert aborts where assertions are compiled in, and is no statement at
\* all where they are not (NDEBUG)
ResultEvaluator(k, h) ==
    /\ Dispatched(k, h)
    /\ \/ AssertAborts
       \/ IF ~AllBound(Conns(k)) THEN ThrowUnbound(Conns(k))
          ELSE IF node.kfail
          THEN \E wrote \in BOOLEAN :
                   Leave(unwrap_or_throw("err"), Range(Conns(k)),
                         IF wrote THEN KernelWrite(mem) ELSE mem, wrote, "err", FALSE, 0)
          ELSE Leave(unwrap_or_throw("ok"), Range(Conns(k)), KernelWrite(mem), TRUE,
                     "ok", FALSE, 0)

\* the same evaluator with the kernel called on the output as soon as the output is
\* bound, whether or not memory_at of the other connectors succeeds
VoidEvaluator_write_first(k, h) ==
    /\ Dispatched(k, h)
    /\ \/ AssertAborts
       \/ IF AllBound(Conns(k))
          THEN Leave("fetch", Range(Conns(k)), KernelWrite(mem), TRUE, "none", FALSE, 0)
          ELSE IF "output" \in node.unbound THEN ThrowUnbound(Conns(k))
          ELSE Leave("aborted", Range(Conns(k)) \ node.unbound, KernelWrite(mem), TRUE,
                     "none", FALSE, 0)

\* an evaluator that resolves its connectors and calls a kernel returning void
VoidEvaluator(k, h) ==
    /\ Dispatched(k, h)
    /\ \/ AssertAborts
       \/ IF ~AllBound(Conns(k)) THEN ThrowUnbound(Conns(k))
          ELSE Leave("fetch", Range(Conns(k)), KernelWrite(mem), TRUE, "none", FALSE, 0)

batch_to_space == ResultEvaluator("op_batch_to_space", "batch_to_space")
binary == ResultEvaluator("op_binary", "binary")
concat == ResultEvaluator("op_concat", "concat")
conv2d == ResultEvaluator("op_conv2d", "conv2d")
conv2d_transpose == VoidEvaluator("op_conv2d_transpose", "conv2d_transpose")
fused_unary == ResultEvaluator("op_fused_unary", "fused_unary")
matmul == VoidEvaluator("op_matmul", "matmul")
pad == ResultEvaluator("op_pad", "pad")
quantize == VoidEvaluator("op_quantize", "quantize")
reduce == ResultEvaluator("op_reduce", "reduce")
reduce_window2d == ResultEvaluator("op_reduce_window2d", "reduce_window2d")
resize_image == ResultEvaluator("op_resize_image", "resize_image")
slice == ResultEvaluator("op_slice", "slice")
transpose == ResultEvaluator("op_transpose", "transpose")
table_lookup1d == VoidEvaluator("op_table_lookup1d", "table_lookup1d")
convert == ResultEvaluator("op_convert", "convert")
gather == ResultEvaluator("op_gather", "gather")

\* std::copy(input.begin(), input.end(), output.begin())
std_copy(input, output) ==
    [i \in 1..Len(output) |-> IF i <= Len(input) THEN input[i] ELSE output[i]]

bitcast ==
    /\ Dispatched("op_bitcast", "bitcast")
    /\ IF ~AllBound(<<"input", "output">>) THEN ThrowUnbound(<<"input", "output">>)
       ELSE Leave("fetch", {"input", "output"},
                  [mem EXCEPT !["output"] = std_copy(mem["input"], @)],
                  TRUE, "none", FALSE, Len(mem["input"]))

dequantize ==
    /\ Dispatched("op_dequantize", "dequantize")
    /\ IF "output" \in node.unbound THEN ThrowUnbound(<<"output">>)
       ELSE IF node.itype \notin DequantizeTypes
       THEN \* assert(false && "not supported type!"): aborts, or with NDEBUG does nothing
            \/ Leave("aborted", {"output"}, mem, FALSE, "none", FALSE, 0)
            \/ Leave("fetch", {"output"}, mem, FALSE, "none", FALSE, 0)
       ELSE IF "input" \in node.unbound THEN ThrowUnbound(<<"output", "input">>)
       ELSE LET count == compute_size(node.ishape)
            IN Leave("fetch", {"output", "input"},
                     [mem EXCEPT !["output"] =
                         neutral_dequantize(as_span(node.itype, mem["input"]), @, count,
                                            node.zp, node.scale)],
                     TRUE, "none", FALSE, count)

unary ==
    /\ Dispatched("op_unary", "unary")
    /\ \/ AssertAborts
       \/ IF ~AllBound(<<"input", "output">>) THEN ThrowUnbound(<<"input", "output">>)
          ELSE IF node.op \notin UnaryOps
          THEN \* throw std::runtime_error("Not supported unary")
               Leave("aborted", {"input", "output"}, mem, FALSE, "none", FALSE, 0)
          ELSE Leave("fetch", {"input", "output"},
                     [mem EXCEPT !["output"] =
                         neutral_unary(mem["input"], @, Len(mem["input"]), node.op)],
                     TRUE, "none", FALSE, Len(mem["input"]))

\* the same evaluator taking its bounds from the last element of the low and high
\* buffers instead of the first
clamp_last_bounds ==
    /\ Dispatched("op_clamp", "clamp")
    /\ \/ AssertAborts
       \/ IF ~AllBound(Conns("op_clamp")) THEN ThrowUnbound(Conns("op_clamp"))
          ELSE Leave("fetch", Range(Conns("op_clamp")),
                     [mem EXCEPT !["output"] =
                         clamp_loop(mem["input"], @, Last(mem["input_low"]),
                                    Last(mem["input_high"]))],
                     TRUE, "none", FALSE, Len(mem["input"]))

clamp ==
    /\ Dispatched("op_clamp", "clamp")
    /\ \/ AssertAborts
       \/ IF ~AllBound(Conns("op_clamp")) THEN ThrowUnbound(Conns("op_clamp"))
          ELSE Leave("fetch", Range(Conns("op_clamp")),
                     [mem EXCEPT !["output"] =
                         clamp_loop(mem["input"], @, mem["input_low"][1],
                                    mem["input_high"][1])],
                     TRUE, "none", FALSE, Len(mem["input"]))

\* what a read outside the input buffer may deliver
GarbageVals == {0, 9}

gather_nd ==
    /\ Dispatched("op_gather_nd", "gather_nd")
    /\ IF ~AllBound(Conns("op_gather_nd")) THEN ThrowUnbound(Conns("op_gather_nd"))
       ELSE LET oobs == GatherOobReads(node, mem)
            IN \/ \E garbage \in [oobs -> GarbageVals] :
                    Leave(unwrap_or_throw("ok"), Range(Conns("op_gather_nd")),
                          [mem EXCEPT !["output"] = gather_nd_impl(node, mem, garbage)],
                          TRUE, "ok", oobs # {}, compute_size(node.oshape))
               \/ \* the out-of-extent read faults
                  /\ oobs # {}
                  /\ Leave("crashed", Range(Conns("op_gather_nd")), mem, FALSE, "none",
                           TRUE, 0)

Next ==
    \/ register_neutral_evaluators
    \/ StartPass
    \/ Fetch
    \/ Finish
    \/ NoEvaluator
    \/ nop_evaluator
    \/ batch_to_space
    \/ binary
    \/ concat
    \/ conv2d
    \/ conv2d_transpose
    \/ dequantize
    \/ fused_unary
    \/ matmul
    \/ pad
    \/ quantize
    \/ reduce
    \/ reduce_window2d
    \/ bitcast
    \/ resize_image
    \/ slice
    \/ transpose
    \/ unary
    \/ table_lookup1d
    \/ clamp
    \/ convert
    \/ gather
    \/ gather_nd

Spec == Init /\ [][Next]_vars

----------------------------------------------------------------------------
(* The tflite importer: the model buffer and the constructor *)

\* tensor indices of the subgraph
TensorIds == 0..(MaxTensors - 1)

\* a tensor whose name() is null
NoName == "null"

\* the content of a model buffer: whether it passes VerifyModelBuffer, the name of
\* every tensor, the tensors whose buffer holds data, the operators with their
\* input and output tensors, and the declared inputs and outputs of the subgraph
Model(valid, names, data, operators, inputs, outputs) ==
    [valid |-> valid, names |-> names, data |-> data, operators |-> operators,
     inputs |-> inputs, outputs |-> outputs]

Operator(inputs, outputs, supported) ==
    [inputs |-> inputs, outputs |-> outputs, supported |-> supported]

\* the sets of tensor indices as ascending sequences, and one with a repetition
RECURSIVE Ascending(_, _)
Ascending(S, i) ==
    IF i >= MaxTensors THEN <<>>
    ELSE (IF i \in S THEN <<i>> ELSE <<>>) \o Ascending(S, i + 1)

TensorLists == {Ascending(S, 0) : S \in SUBSET TensorIds} \cup {<<1, 0, 1>>}

\* models that differ in the names of their tensors and in their declared outputs:
\* one operator from tensor 0 to the last tensor
NamedModels ==
    {Model(TRUE, names, {}, <<Operator(<<0>>, <<MaxTensors - 1>>, TRUE)>>, <<0>>, outs) :
        names \in [TensorIds -> {"a", "b", NoName}],
        outs \in {<<MaxTensors - 1>>, <<MaxTensors - 1, 0>>, <<>>}}

\* models that differ in where the inputs of their operator come from
WiredModels ==
    {Model(TRUE, [t \in TensorIds |-> NoName], data, <<Operator(<<xy[1], xy[2]>>, <<z>>, TRUE)>>,
           ins, <<z>>) :
        data \in SUBSET TensorIds, xy \in TensorIds \X TensorIds, z \in TensorIds,
        ins \in TensorLists}

\* a model whose second operator has an opcode that convert_op does not know
UnsupportedModels ==
    {Model(TRUE, [t \in TensorIds |-> NoName], {},
           <<Operator(<<0>>, <<1>>, TRUE), Operator(<<1>>, <<2>>, FALSE)>>, <<0>>, <<2>>)}

\* buffers that fail verification: their content is whatever the bytes decode to
InvalidModels ==
    {[m EXCEPT !.valid = FALSE] :
        m \in UnsupportedModels \cup {w \in WiredModels : w.data = {} /\ w.inputs = <<>>}}

OutputArrays ==
    {<<>>, <<"a">>, <<"b">>, <<"c">>, <<"a", "b">>, <<"b", "a">>, <<"a", "a">>, <<"a", "c">>,
     <<"c", "a">>}

\* the importer before its constructor runs, with the buffer and options it is given
ImportInit ==
    /\ EvalInit
    /\ istate = "new"
    /\ \/ model \in NamedModels /\ options \in OutputArrays
       \/ model \in WiredModels \cup UnsupportedModels \cup InvalidModels /\ options = <<>>
    /\ graph_ = <<>>
    /\ links = <<>>
    /\ error = <<>>
    /\ ctor = <<>>

\* the member initialisers model_(GetModel(model.data())) and
\* subgraph_(model_->subgraphs()->Get(0)): reads of the buffer's content
MemberInitializers == <<"GetModel", "subgraphs()->Get(0)">>

\* the constructor body: flatbuffers::Verifier and VerifyModelBuffer
ConstructorBody == <<"VerifyModelBuffer">>

\* tflite_importer::tflite_importer: the member initialisers run before the body.
\* Reading the subgraphs of a buffer that does not verify follows offsets nothing
\* has checked: the read faults, or it returns and the body rejects the buffer.
tflite_importer ==
    /\ istate = "new"
    /\ IF model.valid
       THEN /\ istate' = "constructed"
            /\ ctor' = MemberInitializers \o ConstructorBody
            /\ error' = <<>>
       ELSE \/ /\ istate' = "crashed"
               /\ ctor' = MemberInitializers
               /\ error' = <<>>
            \/ /\ istate' = "rejected"
               /\ ctor' = MemberInitializers \o ConstructorBody
               /\ error' = <<"Invalid tflite model">>
    /\ UNCHANGED <<model, options, graph_, links, evars>>

----------------------------------------------------------------------------
(* The tflite importer: import() *)

\* connectors: <<"op", i, s>> is slot s of operator i (an input connector in
\* input_tensors_ and links' domain, an output connector in output_tensors_);
\* <<"node", k, 1>> is the one connector of the k-th node of the graph
OpConn(i, s) == <<"op", i, s>>
NodeConn(k) == <<"node", k, 1>>

GraphNode(kind, tensor) == [kind |-> kind, tensor |-> tensor]

\* the number of operators convert_op converts before one is not supported
RECURSIVE Converted(_)
Converted(operators) ==
    IF operators = <<>> \/ ~Head(operators).supported THEN 0
    ELSE 1 + Converted(Tail(operators))

\* input_tensors_ after the operators were converted: input connector -> tensor
InputConnectors(m) ==
    UNION {{OpConn(i, sl) : sl \in 1..Len(m.operators[i].inputs)} :
              i \in 1..Len(m.operators)}

InputTensor(m, c) == m.operators[c[2]].inputs[c[3]]

\* output_tensors_ after the operators were converted: tensor -> output connector
ProducedTensors(m) ==
    UNION {Range(m.operators[i].outputs) : i \in 1..Len(m.operators)}

OutputTensors(m) ==
    [t \in ProducedTensors(m) |->
        CHOOSE c \in UNION {{OpConn(i, sl) : sl \in 1..Len(m.operators[i].outputs)} :
                                i \in 1..Len(m.operators)} :
            m.operators[c[2]].outputs[c[3]] = t]

\* the orders in which the unordered map input_tensors_ may be iterated
Orders(S) ==
    {o \in [1..Cardinality(S) -> S] : \A i, j \in 1..Len(o) : i # j => o[i] # o[j]}

\* create inputs: one input_node per declared input; created_inputs.emplace keeps
\* the first node of a tensor
RECURSIVE CreateInputs(_, _, _)
CreateInputs(ins, graph, created_inputs) ==
    IF ins = <<>> THEN [graph |-> graph, created_inputs |-> created_inputs]
    ELSE LET g == Append(graph, GraphNode("input_node", Head(ins)))
         IN CreateInputs(Tail(ins), g,
                IF Head(ins) \in DOMAIN created_inputs THEN created_inputs
                ELSE created_inputs @@ (Head(ins) :> NodeConn(Len(g))))

\* the scan of the tensors for a name that takes the last match
RECURSIVE ScanTensorsLast(_, _, _)
ScanTensorsLast(m, name, i) ==
    IF i >= MaxTensors THEN 0 - 1
    ELSE LET later == ScanTensorsLast(m, name, i + 1)
         IN IF later >= 0 THEN later
            ELSE IF m.names[i] # NoName /\ m.names[i] = name THEN i ELSE 0 - 1

\* the scan of the tensors for a name, from index i on: the index of the first
\* tensor with that name, -1 when the loop ends with found == false
RECURSIVE ScanTensors(_, _, _)
ScanTensors(m, name, i) ==
    IF i >= MaxTensors THEN 0 - 1
    ELSE IF m.names[i] # NoName /\ m.names[i] = name THEN i
    ELSE ScanTensors(m, name, i + 1)

\* the outputs vector: the declared outputs, or the tensors found for the requested
\* names; missing is the name whose scan found nothing
RECURSIVE SelectNamed(_, _, _)
SelectNamed(m, names, outputs) ==
    IF names = <<>> THEN [found |-> TRUE, outputs |-> outputs, missing |-> ""]
    ELSE LET i == ScanTensors(m, Head(names), 0)
         IN IF i < 0 THEN [found |-> FALSE, outputs |-> outputs, missing |-> Head(names)]
            ELSE SelectNamed(m, Tail(names), Append(outputs, i))

SelectOutputs(m, output_arrays) ==
    IF output_arrays = <<>> THEN [found |-> TRUE, outputs |-> m.outputs, missing |-> ""]
    ELSE SelectNamed(m, output_arrays, <<>>)

\* create outputs: one output_node per entry; created_outputs.emplace keeps the first
RECURSIVE CreateOutputs(_, _, _)
CreateOutputs(outs, graph, created_outputs) ==
    IF outs = <<>> THEN [graph |-> graph, created_outputs |-> created_outputs]
    ELSE LET g == Append(graph, GraphNode("output_node", Head(outs)))
         IN CreateOutputs(Tail(outs), g,
                IF Head(outs) \in DOMAIN created_outputs THEN created_outputs
                ELSE created_outputs @@ (Head(outs) :> NodeConn(Len(g))))

\* connect tensors: an input whose tensor has an entry in output_tensors_ is
\* connected to it; otherwise, if the tensor's buffer holds data, a constant is
\* emplaced, linked into output_tensors_ and connected
RECURSIVE ConnectTensors(_, _, _)
ConnectTensors(order, m, st) ==
    IF order = <<>> THEN st
    ELSE LET c == Head(order)
             t == InputTensor(m, c)
         IN IF t \in DOMAIN st.output_tensors
            THEN ConnectTensors(Tail(order), m,
                    [st EXCEPT !.links = @ @@ (c :> st.output_tensors[t])])
            ELSE IF t \in m.data
            THEN LET g == Append(st.graph, GraphNode("constant", t))
                 IN ConnectTensors(Tail(order), m,
                        [graph |-> g,
                         output_tensors |-> st.output_tensors @@ (t :> NodeConn(Len(g))),
                         links |-> st.links @@ (c :> NodeConn(Len(g)))])
            ELSE ConnectTensors(Tail(order), m, st)

\* the inputs loop with created_inputs.find in place of at: a tensor that is no
\* graph input leaves its connector as it is
RECURSIVE ConnectInputs_find(_, _, _, _)
ConnectInputs_find(order, m, created_inputs, lk) ==
    IF order = <<>> THEN [ok |-> TRUE, links |-> lk]
    ELSE LET c == Head(order)
             t == InputTensor(m, c)
         IN IF c \in DOMAIN lk \/ t \notin DOMAIN created_inputs
            THEN ConnectInputs_find(Tail(order), m, created_inputs, lk)
            ELSE ConnectInputs_find(Tail(order), m, created_inputs,
                                    lk @@ (c :> created_inputs[t]))

\* inputs: a connector still without a connection is connected to the input node
\* of its tensor; created_inputs.at throws when there is none
RECURSIVE ConnectInputs(_, _, _, _)
ConnectInputs(order, m, created_inputs, lk) ==
    IF order = <<>> THEN [ok |-> TRUE, links |-> lk]
    ELSE LET c == Head(order)
             t == InputTensor(m, c)
         IN IF c \in DOMAIN lk THEN ConnectInputs(Tail(order), m, created_inputs, lk)
            ELSE IF t \notin DOMAIN created_inputs THEN [ok |-> FALSE, links |-> lk]
            ELSE ConnectInputs(Tail(order), m, created_inputs,
                               lk @@ (c :> created_inputs[t]))

\* outputs: every entry of output_tensors_ whose tensor has an output node is
\* connected to that node's input
ConnectOutputs(output_tensors, created_outputs, lk) ==
    LET ts == DOMAIN output_tensors \cap DOMAIN created_outputs
    IN lk @@ [c \in {created_outputs[t] : t \in ts} |->
                output_tensors[CHOOSE t \in ts : created_outputs[t] = c]]

ImportResult(state, graph, lk, err) ==
    [state |-> state, graph |-> graph, links |-> lk, error |-> err]

\* tflite_importer::import up to graph_.dce(), with input_tensors_ iterated in order
import_run(m, output_arrays, order) ==
    LET n == Converted(m.operators)
        ops == [i \in 1..n |-> GraphNode("op", i)]
        ins == CreateInputs(m.inputs, ops, <<>>)
        sel == SelectOutputs(m, output_arrays)
        outs == CreateOutputs(sel.outputs, ins.graph, <<>>)
        con == ConnectTensors(order, m, [graph |-> outs.graph,
                                         output_tensors |-> OutputTensors(m),
                                         links |-> <<>>])
        inp == ConnectInputs(order, m, ins.created_inputs, con.links)
    IN IF n < Len(m.operators)
       THEN ImportResult("failed", ops, <<>>, <<"Unsupported tflite opcode">>)
       ELSE IF ~sel.found
       THEN ImportResult("failed", ins.graph, <<>>,
                         <<"Cannot find output tensor: ", sel.missing>>)
       ELSE IF ~inp.ok
       THEN ImportResult("failed", con.graph, inp.links, <<"std::out_of_range">>)
       ELSE ImportResult("imported", con.graph,
                         ConnectOutputs(con.output_tensors, outs.created_outputs, inp.links),
                         <<>>)

import ==
    /\ istate = "constructed"
    /\ \E order \in Orders(InputConnectors(model)) :
          LET r == import_run(model, options, order)
          IN /\ istate' = r.state
             /\ graph_' = r.graph
             /\ links' = r.links
             /\ error' = r.error
    /\ UNCHANGED <<model, options, ctor, evars>>

ImportNext ==
    \/ tflite_importer
    \/ import

ImportSpec == ImportInit /\ [][ImportNext]_vars

----------------------------------------------------------------------------
(* Properties *)

\* the evaluator of the node at pos has been invoked and has left
Ran == status \in {"fetch", "completed", "aborted", "crashed"} /\ pos \in Range(evaluated)

\* ... and it returned normally
Returned == Ran /\ status \in {"fetch", "completed"}

InBounds(index, shape) == \A d \in 1..Len(shape) : index[d] >= 0 /\ index[d] < shape[d]

\* the input index of output index o: o's batch components, then the index tuple
\* found in the indices tensor (read with the strides sx) at the coordinate made of
\* o's first rank(indices)-1 components, then o's trailing components
GatheredIndex(o, n, m, sx) ==
    LET r == Len(n.xshape)
        base == offset(sx, SubSeq(o, 1, r - 1) \o <<0>>)
    IN SubSeq(o, 1, n.bd)
         \o [i \in 1..n.xshape[r] |-> m["indices"][base + (i - 1) * sx[r] + 1]]
         \o SubSeq(o, r, Len(o))

DenseIndices(n) == n.xstr = get_default_strides(n.xshape)

\* C1: Gather-ND writes, for every output index o, output[o] = input[in_index] with
\* in_index made of o's batch components, the index tuple read from the indices
\* tensor at o's leading coordinate, and o's trailing components; the 2x2 input
\* [[1,2],[3,4]] with indices [[1],[0]] and batch_dims 0 gives [[3,4],[1,2]].
C1_GatherNd ==
    (Returned /\ node.kind = "op_gather_nd" /\ DenseIndices(node)) =>
        /\ kcount = compute_size(node.oshape)
        /\ Len(mem["output"]) = compute_size(node.oshape)
        /\ \A k \in 1..Len(Indices(node.oshape)) :
              LET o == Indices(node.oshape)[k]
                  in_index == GatheredIndex(o, node, mem, node.xstr)
              IN InBounds(in_index, node.ishape) =>
                    mem["output"][offset(node.ostr, o) + 1]
                        = mem["input"][offset(node.istr, in_index) + 1]
        /\ (/\ node.ishape = <<2, 2>> /\ node.istr = <<2, 1>> /\ node.xshape = <<2, 1>>
            /\ node.bd = 0 /\ mem["indices"] = <<1, 0>> /\ mem["input"] = <<1, 2, 3, 4>>)
              => mem["output"] = <<3, 4, 1, 2>>

C1_Witness ==
    /\ Returned /\ node.kind = "op_gather_nd" /\ DenseIndices(node)
    /\ node.ishape = <<2, 2>> /\ node.istr = <<2, 1>> /\ node.xshape = <<2, 1>>
    /\ node.bd = 0 /\ mem["indices"] = <<1, 0>> /\ mem["input"] = <<1, 2, 3, 4>>
    /\ mem["output"] = <<3, 4, 1, 2>>

\* r is a whole number within one half of a, and an even one when exactly one half away
RoundHalfEven(a, r) ==
    /\ r % Unit = 0
    /\ AbsFx(a - r) <= Half
    /\ AbsFx(a - r) = Half => (r \div Unit) % 2 = 0

\* C2: unary round is round-half-to-even, for negative and positive inputs:
\* round(0.5) = 0, round(1.5) = 2, round(2.5) = 2, round(-0.5) = 0.
C2_RoundHalfEven ==
    (Returned /\ node.kind = "op_unary" /\ node.op = "unary_round") =>
        /\ \A i \in 1..Len(mem["input"]) : RoundHalfEven(mem["input"][i], mem["output"][i])
        /\ mem["input"] = <<Half>> => mem["output"] = <<0>>
        /\ mem["input"] = <<3 * Half>> => mem["output"] = <<2 * Unit>>
        /\ mem["input"] = <<5 * Half>> => mem["output"] = <<2 * Unit>>
        /\ mem["input"] = <<0 - Half>> => mem["output"] = <<0>>

C2_Witness ==
    /\ Returned /\ node.kind = "op_unary" /\ node.op = "unary_round"
    /\ mem["input"] = <<0 - (3 * Half)>> /\ mem["output"] = <<0 - (2 * Unit)>>

\* an index value of the indices tensor is negative or not below the size of the
\* input dimension it addresses
BadGatherIndex(n, m) ==
    \E k \in 1..Len(Indices(n.oshape)) :
        ~InBounds(GatheredIndex(Indices(n.oshape)[k], n, m, get_default_strides(n.xshape)),
                  n.ishape)

\* C3: an out-of-bounds Gather-ND index makes the kernel report failure, and no read
\* outside the input buffer happens.
C3_OutOfBoundsReported ==
    (Ran /\ node.kind = "op_gather_nd" /\ node.unbound = {} /\ BadGatherIndex(node, mem)) =>
        (kres = "err" /\ status = "aborted" /\ ~oob)

C4_Inv ==
    /\ kres = "err" => (status = "aborted" /\ Last(evaluated) = pos)
    /\ evaluated \in {Iota(pos), Iota(pos - 1)}
    /\ status = "completed" => evaluated = Iota(nnodes)

\* C4: the pass is fail-fast: a kernel failure at node i aborts the pass at i, no
\* later node is evaluated and the pass never completes; without a failure every node
\* is evaluated exactly once, in order.
C4_FailFast ==
    /\ []C4_Inv
    /\ [][status = "aborted" => (status' = "aborted" /\ evaluated' = evaluated)]_vars

C4_Witness ==
    /\ kres = "err" /\ status = "aborted" /\ pos = 2 /\ nnodes = 3
    /\ evaluated = <<1, 2>>

\* C5: a node with an unbound connector aborts the pass before any output buffer of
\* any node has been written, wherever the node sits in the order.
C5_NoPartialOutput ==
    (status = "aborted" /\ node.unbound # {}) => written = {}

\* C7: after register_neutral_evaluators every enumerated operator kind has exactly
\* one registered evaluator and no kind is registered twice.
EnumeratedKinds ==
    {"op_binary", "op_unary", "op_conv2d", "op_conv2d_transpose", "op_matmul", "op_pad",
     "op_slice", "op_transpose", "op_concat", "op_reduce", "op_reduce_window2d",
     "op_quantize", "op_dequantize", "op_resize_image", "op_gather", "op_gather_nd",
     "op_bitcast", "op_clamp", "op_convert", "op_fused_unary"}

C7_TableExhaustive ==
    status # "start" =>
        /\ \A k \in EnumeratedKinds : Len(table[k]) = 1
        /\ \A k \in OpKinds : Len(table[k]) <= 1

C7_Witness ==
    /\ status = "eval" /\ node.kind = "op_gather_nd"
    /\ table["op_gather_nd"] = <<"gather_nd">> /\ table["op_gather"] = <<"gather">>

\* C8: evaluating an input, output, ignore or constant node changes no bound memory
\* and resolves no connector binding.
C8_NopFrame ==
    [][(status = "eval" /\ node.kind \in NopKinds)
          => (mem' = mem /\ resolved' = resolved /\ written' = written
              /\ status' = "fetch")]_vars

C8_Witness ==
    /\ Returned /\ node.kind = "op_constant" /\ node.unbound = {}
    /\ resolved = {} /\ written = {} /\ mem = BaseMem("op_constant")

\* what the evaluator of node n computes of one element x
ElemFn(n, m, x) ==
    CASE n.kind = "op_unary" -> UnaryFn(n.op, x)
      [] n.kind = "op_clamp" -> std_clamp(x, m["input_low"][1], m["input_high"][1])
      [] n.kind = "op_dequantize" -> (x - n.zp) * n.scale

InputElems(n, m) ==
    IF n.kind = "op_dequantize" THEN as_span(n.itype, m["input"]) ELSE m["input"]

ElementWise(n) ==
    \/ n.kind = "op_unary" /\ n.op \in UnaryOps
    \/ n.kind = "op_clamp"
    \/ n.kind = "op_dequantize" /\ n.itype \in DequantizeTypes

\* C9: every evaluation reads and writes the element at multi-index idx at the
\* offset sum idx[d]*strides[d] of the bound view, also for non-default strides.
C9_StridesHonored ==
    /\ (Returned /\ ElementWise(node)) =>
          \A k \in 1..Len(Indices(node.ishape)) :
              LET idx == Indices(node.ishape)[k]
              IN mem["output"][offset(node.ostr, idx) + 1]
                    = ElemFn(node, mem, InputElems(node, mem)[offset(node.istr, idx) + 1])
    /\ (Returned /\ node.kind = "op_gather_nd") =>
          \A k \in 1..Len(Indices(node.oshape)) :
              LET o == Indices(node.oshape)[k]
                  in_index == GatheredIndex(o, node, mem, node.xstr)
              IN InBounds(in_index, node.ishape) =>
                    mem["output"][offset(node.ostr, o) + 1]
                        = mem["input"][offset(node.istr, in_index) + 1]

DequantizeDone == Ran /\ node.kind = "op_dequantize" /\ node.unbound = {}

\* C10 as stated: for an input of any 8-, 16- or 32-bit integer type the dequantize
\* kernel is invoked over all compute_size(input shape) elements and the output is
\* written.
C10_AllIntegerFamilies ==
    (DequantizeDone /\ node.itype \in DequantizeTypes \cup OtherIntTypes) =>
        (kcount = compute_size(node.ishape) /\ pos \in written)

\* C10 amended: for an input of type uint8, int8 or int32 the kernel is invoked over
\* all compute_size(input shape) elements, each read at that type, and the output is
\* written; for any other input type the kernel is not invoked and nothing is written.
C10_SupportedTypes ==
    DequantizeDone =>
        IF node.itype \in DequantizeTypes
        THEN /\ status = "fetch" \/ status = "completed"
             /\ kcount = compute_size(node.ishape)
             /\ pos \in written
             /\ \A i \in 1..kcount :
                   mem["output"][i]
                      = (ReadElem(node.itype, mem["input"], i - 1) - node.zp) * node.scale
        ELSE kcount = 0 /\ pos \notin written

C10_Witness ==
    /\ DequantizeDone /\ node.itype = "dt_int8" /\ mem["input"] = <<255>>
    /\ node.zp = 1 /\ node.scale = Half /\ mem["output"] = <<0 - Unit>>
    /\ pos \in written

\* the declared input type of n is not one its evaluator reads the input buffer as
Mistyped(n) == n.kind \in TypedKinds /\ n.itype \notin KernelTypes(n.kind)

\* C11: a node whose declared input type does not match the type its kernel requires
\* (float32 for binary, conv2d, conv2d_transpose, matmul, reduce, reduce_window2d,
\* unary, clamp, quantize and fused_unary; uint8 for table_lookup1d; a supported type
\* for dequantize) aborts the pass: the kernel does not run on the mistyped buffer and
\* the node is not skipped.
C11_MistypedFailsLoudly ==
    (Ran /\ Mistyped(node) /\ node.unbound = {}) =>
        (status = "aborted" /\ pos \notin written /\ kres = "none")

Min(a, b) == IF a <= b THEN a ELSE b
Max(a, b) == IF a >= b THEN a ELSE b

ClampDone == Returned /\ node.kind = "op_clamp" /\ node.itype = "dt_float32"

\* C12: clamp uses per-tensor scalar bounds: with low the first element of the
\* input_low buffer, high the first element of the input_high buffer and low <= high,
\* every output element i below the input size is min(max(input[i], low), high),
\* whatever the later elements of the low and high buffers are.
C12_ClampScalarBounds ==
    (ClampDone /\ mem["input_low"][1] <= mem["input_high"][1]) =>
        /\ kcount = Len(mem["input"])
        /\ \A i \in 1..Len(mem["input"]) :
              mem["output"][i]
                 = Min(Max(mem["input"][i], mem["input_low"][1]), mem["input_high"][1])

\* 2.5 clamped to [0, 1] is 1 although the second elements of the buffers are 1 and 0
C12_Witness ==
    /\ ClampDone
    /\ mem["input"] = <<5 * Half>> /\ mem["output"] = <<Unit>>
    /\ mem["input_low"] = <<0, Unit>> /\ mem["input_high"] = <<Unit, 0>>

\* C15: within the evaluation of one node every connector of the node is resolved
\* through memory_at before the node's output buffer is written: a node whose output
\* has been written has all its connectors bound and resolved, and a node with an
\* unbound connector has written nothing to its output.
C15_ResolvedBeforeWrite ==
    /\ pos \in written =>
          (node.unbound = {} /\ resolved = Range(Conns(node.kind)))
    /\ (Ran /\ node.unbound # {}) => pos \notin written

\* a dequantize node whose output is bound and whose input is not: the output is
\* resolved first, memory_at of the input throws and nothing is written
C15_Witness ==
    /\ Ran /\ status = "aborted" /\ node.kind = "op_dequantize"
    /\ node.unbound = {"input"} /\ resolved = {"output"} /\ pos \notin written

\* the conditions gather_nd_impl relies on
GatherPre(n) ==
    /\ Len(n.xshape) >= 1
    /\ n.bd < Len(n.xshape)
    /\ n.bd + Last(n.xshape) <= Len(n.ishape)
    /\ n.oshape = SubSeq(n.xshape, 1, Len(n.xshape) - 1)
                      \o SubSeq(n.ishape, n.bd + Last(n.xshape) + 1, Len(n.ishape))

GatherNdDone == Ran /\ node.kind = "op_gather_nd" /\ node.unbound = {}

\* C16: in gather_nd_impl, when rank(indices) >= 1, batch_dims < rank(indices),
\* batch_dims + indices_shape[last] <= rank(input) and out_shape is indices_shape
\* without its last axis followed by in_shape[batch_dims + indices_shape[last] ..],
\* then for every output index all accesses to in_index, indices_index and out_index
\* are within bounds, every component of in_index and every component of
\* indices_index but the last is assigned, and the last one of indices_index stays 0.
C16_LambdaInBounds ==
    (GatherNdDone /\ GatherPre(node)) =>
        \A k \in 1..Len(Indices(node.oshape)) :
            LET o == Indices(node.oshape)[k]
                r == Len(node.xshape)
                st == gather_lambda(o, Len(node.ishape), mem["indices"], node.xshape,
                                    node.bd)
            IN /\ st.bad = {}
               /\ st.asg_in = 0..(Len(node.ishape) - 1)
               /\ st.asg_idx = 0..(r - 2)
               /\ st.indices_index[r] = 0
               /\ st.in_index = gather_in_index(o, Len(node.ishape), mem["indices"],
                                                node.xshape, node.bd)

\* batch_dims 1 on a 2x2 input with indices of shape [2,1]: the first loop assigns
\* component 0 of both vectors, the third loop the remaining component of in_index
C16_Witness ==
    /\ GatherNdDone /\ GatherPre(node) /\ Returned
    /\ node.bd = 1 /\ node.ishape = <<2, 2>> /\ node.xshape = <<2, 1>>
    /\ mem["indices"] = <<1, 0>> /\ mem["output"] = <<2, 3>>

\* the tensors of the output nodes of the graph, in the order of their creation
IsOutputNode(x) == x.kind = "output_node"
GraphOutputs == [i \in 1..Len(SelectSeq(graph_, IsOutputNode)) |->
                    SelectSeq(graph_, IsOutputNode)[i].tensor]

Matches(m, name) == {t \in TensorIds : m.names[t] = name}
Lowest(S) == CHOOSE t \in S : \A u \in S : t <= u

\* import() ran past the conversion of the operators
SelectionRan ==
    istate \in {"imported", "failed"} /\ error # <<"Unsupported tflite opcode">>

\* C13: with no requested output name the graph outputs are the declared outputs of
\* the subgraph, in order; otherwise the output for each requested name, in order, is
\* the lowest-index tensor with that name, and when a requested name matches no
\* tensor the import fails with 'Cannot find output tensor' and no output node exists.
C13_OutputSelection ==
    SelectionRan =>
        IF options = <<>> THEN GraphOutputs = model.outputs
        ELSE IF \A i \in 1..Len(options) : Matches(model, options[i]) # {}
        THEN GraphOutputs = [i \in 1..Len(options) |-> Lowest(Matches(model, options[i]))]
        ELSE /\ istate = "failed"
             /\ Len(error) = 2 /\ error[1] = "Cannot find output tensor: "
             /\ error[2] \in Range(options) /\ Matches(model, error[2]) = {}
             /\ GraphOutputs = <<>>

\* "a" names tensors 0 and 1, "c" names none: the import fails on "c" after the input
\* node was created, and no output node exists
C13_Witness ==
    /\ istate = "failed" /\ options = <<"a", "c">>
    /\ model.names[0] = "a" /\ model.names[1] = "a"
    /\ error = <<"Cannot find output tensor: ", "c">>
    /\ graph_ = <<GraphNode("op", 1), GraphNode("input_node", 0)>>

\* tensor t is neither produced by an operator, nor a constant, nor a graph input
Orphan(m, t) ==
    t \notin ProducedTensors(m) /\ t \notin m.data /\ t \notin Range(m.inputs)

C17_VerifiedBeforeRead ==
    (istate \notin {"none", "new"} /\ ~model.valid) =>
        /\ istate = "rejected"
        /\ error = <<"Invalid tflite model">>
        /\ ctor[1] = "VerifyModelBuffer"

====
